---- MODULE Spec2Model ----
(***************************************************************************)
(* VisualPy AST parser (src/resources/parser.py).                          *)
(*                                                                         *)
(* Three specifications over one set of variables:                         *)
(*   SpecScan  extract_comments run one loop iteration at a time;          *)
(*   SpecNode  get_source_segment and node_to_dict applied to a node;      *)
(*   Spec      main / parse_python, one step per statement that can raise. *)
(*                                                                         *)
(* A Python str is a sequence of one-character strings.  Python values of  *)
(* mixed type (attributes, field values, JSON values) are tagged records.  *)
(***************************************************************************)
EXTENDS Integers, Sequences, FiniteSets, TLC

VARIABLES
    pc,            \* position of the running function
    source,        \* the source text (a str)
    i,             \* extract_comments: 1-based number of the line being scanned
    col,           \* extract_comments: 0-based scan position in the line
    in_string,     \* extract_comments: inside a string literal
    string_char,   \* extract_comments: the open delimiter, <<>> for None
    comments,      \* extract_comments: the records appended so far
    source_lines,  \* get_source_segment / node_to_dict: the lines argument
    node,          \* get_source_segment / node_to_dict: the node argument
    segment,       \* what get_source_segment(source_lines, node) did
    normalized,    \* what node_to_dict(node, source_lines) did
    raised,        \* main: the exceptions raised so far, each with its statement
    tree,          \* parse_python: the tree ast.parse returned
    result,        \* main: the dict parse_python returned
    stdout,        \* main: the documents printed so far
    exit_code      \* main: the process exit code, -1 while running

vars == <<pc, source, i, col, in_string, string_char, comments, source_lines,
          node, segment, normalized, raised, tree, result, stdout, exit_code>>

scanVars == <<i, col, in_string, string_char, comments>>
nodeVars == <<source_lines, node, segment, normalized>>
mainVars == <<raised, tree, result, stdout, exit_code>>

-----------------------------------------------------------------------------
(* Bounds *)

MaxSrcLen == 5
MaxLines == 3
MaxLineLen == 2
MaxFields == 2
MaxStdinLen == 3

-----------------------------------------------------------------------------
(* Python values *)

None == [none |-> TRUE]
Absent == [absent |-> TRUE]
PyInt(n) == [int |-> n]
PyBool(b) == [bool |-> b]
\* a str given by its characters
PyStr(s) == [str |-> s]
\* a str whose characters play no part (a label, an identifier, a message)
Text(s) == [text |-> s]
\* an exception leaving the function
Raise(e) == [raise |-> e]
IsRaise(v) == DOMAIN v = {"raise"}

Min(a, b) == IF a < b THEN a ELSE b
Max(a, b) == IF a > b THEN a ELSE b

\* A slice bound: a negative one counts from the end, and both ends are
\* clamped to the length.
ClampIndex(n, len) == IF n < 0 THEN Max(len + n, 0) ELSE Min(n, len)

\* s[a:b] for a sequence s and integers a, b
Slice(s, a, b) ==
    LET lo == ClampIndex(a, Len(s))
        hi == ClampIndex(b, Len(s))
    IN IF lo >= hi THEN <<>> ELSE SubSeq(s, lo + 1, hi)

\* s[a:b] where a or b may be None
PySlice(s, a, b) ==
    Slice(s, IF a = None THEN 0 ELSE a.int, IF b = None THEN Len(s) ELSE b.int)

\* s[k] for an integer k: a negative k counts from the end
Index(s, k) == IF k < 0 THEN s[Len(s) + k + 1] ELSE s[k + 1]

\* s[a:]
SliceFrom(s, a) == Slice(s, a, Len(s))

Whitespace == {" "}

RECURSIVE lstrip(_)
lstrip(s) ==
    IF s # <<>> /\ Head(s) \in Whitespace THEN lstrip(Tail(s)) ELSE s

RECURSIVE rstrip(_)
rstrip(s) ==
    IF s # <<>> /\ s[Len(s)] \in Whitespace
    THEN rstrip(SubSeq(s, 1, Len(s) - 1))
    ELSE s

\* str.strip()
strip(s) == rstrip(lstrip(s))

\* str.split('\n'): always at least one line
RECURSIVE split(_)
split(s) ==
    IF \A k \in 1..Len(s) : s[k] # "\n"
    THEN <<s>>
    ELSE LET n == CHOOSE k \in 1..Len(s) :
                      s[k] = "\n" /\ \A j \in 1..(k - 1) : s[j] # "\n"
         IN <<SubSeq(s, 1, n - 1)>> \o split(SubSeq(s, n + 1, Len(s)))

-----------------------------------------------------------------------------
(* extract_comments *)

Quotes == {"\"", "'"}
TripleQuotes == {<<"\"", "\"", "\"">>, <<"'", "'", "'">>}

\* The per-line state set at the top of the for body.
LineStart == [col |-> 0, in_string |-> FALSE, string_char |-> <<>>]

\* The dict appended for a marker at column c of line number n.
CommentRecord_InlineByColumn(n, line, c) ==
    [line |-> n, column |-> c,
     text |-> strip(SliceFrom(line, c + 1)),
     inline |-> c > 0]

CommentRecord(n, line, c) ==
    [line |-> n, column |-> c,
     text |-> strip(SliceFrom(line, c + 1)),
     inline |-> strip(Slice(line, 0, c)) # <<>>]

\* One iteration of the while loop at st.col < len(line).  brk: the loop
\* was left by break, with a comment found at st.col.
ScanStep(line, st) ==
    LET char == line[st.col + 1]
        three == Slice(line, st.col, st.col + 3)
    IN IF char \in Quotes /\ ~st.in_string /\ three \in TripleQuotes
       THEN [col |-> st.col + 3, in_string |-> TRUE, string_char |-> three,
             brk |-> FALSE]
       ELSE IF char \in Quotes /\ st.in_string /\ Len(st.string_char) = 3
                 /\ three = st.string_char
       THEN [col |-> st.col + 3, in_string |-> FALSE, string_char |-> <<>>,
             brk |-> FALSE]
       ELSE LET s == IF char \in Quotes /\ ~st.in_string
                     THEN [in_string |-> TRUE, string_char |-> <<char>>]
                     ELSE IF char \in Quotes /\ st.in_string
                               /\ Len(st.string_char) = 1
                               /\ char = st.string_char[1]
                     THEN [in_string |-> FALSE, string_char |-> <<>>]
                     ELSE [in_string |-> st.in_string,
                           string_char |-> st.string_char]
            IN IF char = "#" /\ ~s.in_string
               THEN [col |-> st.col, in_string |-> s.in_string,
                     string_char |-> s.string_char, brk |-> TRUE]
               ELSE [col |-> st.col + 1, in_string |-> s.in_string,
                     string_char |-> s.string_char, brk |-> FALSE]

\* The while loop run from state st to its end: the state it is left in.
RECURSIVE ScanFrom(_, _)
ScanFrom(line, st) ==
    IF st.col < Len(line)
    THEN LET t == ScanStep(line, st)
         IN IF t.brk
            THEN t
            ELSE ScanFrom(line, [col |-> t.col, in_string |-> t.in_string,
                                 string_char |-> t.string_char])
    ELSE [col |-> st.col, in_string |-> st.in_string,
          string_char |-> st.string_char, brk |-> FALSE]

\* The for body for line number n: the records it appends.
ScanLine(n, line) ==
    LET end == ScanFrom(line, LineStart)
    IN IF end.brk THEN <<CommentRecord(n, line, end.col)>> ELSE <<>>

RECURSIVE ScanLines(_, _)
ScanLines(lines, n) ==
    IF n > Len(lines)
    THEN <<>>
    ELSE ScanLine(n, lines[n]) \o ScanLines(lines, n + 1)

extract_comments(src) == ScanLines(split(src), 1)

-----------------------------------------------------------------------------
(* get_source_segment *)

\* '\n'.join(ls)
RECURSIVE join(_)
join(ls) ==
    IF ls = <<>> THEN <<>>
    ELSE IF Len(ls) = 1 THEN ls[1]
    ELSE ls[1] \o <<"\n">> \o join(Tail(ls))

\* The multi-line branch: the slice of lines, its first and last trimmed.
MultiLineSegment_ExclusiveEnd(src_lines, start_line, end_line, start_col, end_col) ==
    LET ls == Slice(src_lines, start_line, end_line)
    IN IF ls = <<>>
       THEN None
       ELSE LET first == [ls EXCEPT ![1] = PySlice(ls[1], start_col, None)]
                last == IF end_col # None
                        THEN [first EXCEPT ![Len(first)] =
                                  PySlice(first[Len(first)], None, end_col)]
                        ELSE first
            IN PyStr(join(last))

MultiLineSegment(src_lines, start_line, end_line, start_col, end_col) ==
    LET ls == Slice(src_lines, start_line, end_line + 1)
    IN IF ls = <<>>
       THEN None
       ELSE LET first == [ls EXCEPT ![1] = PySlice(ls[1], start_col, None)]
                last == IF end_col # None
                        THEN [first EXCEPT ![Len(first)] =
                                  PySlice(first[Len(first)], None, end_col)]
                        ELSE first
            IN PyStr(join(last))

\* A node attribute is Absent (the node has no such attribute), None, or an
\* integer.  getattr(node, name, default):
getattr(v, default) == IF v = Absent THEN default ELSE v

get_source_segment(src_lines, n) ==
    IF n.lineno = Absent \/ n.lineno = None
    THEN None
    ELSE LET end_lineno == getattr(n.end_lineno, n.lineno)
         IN IF end_lineno = None
            THEN Raise("TypeError")
            ELSE LET start_line == n.lineno.int - 1
                     end_line == end_lineno.int - 1
                     start_col == getattr(n.col_offset, PyInt(0))
                     end_col == getattr(n.end_col_offset, None)
                 IN IF start_line >= Len(src_lines)
                    THEN None
                    ELSE IF start_line = end_line
                    THEN PyStr(PySlice(Index(src_lines, start_line),
                                       start_col, end_col))
                    ELSE MultiLineSegment(src_lines, start_line, end_line,
                                          start_col, end_col)

-----------------------------------------------------------------------------
(* node_to_dict *)

\* A node is [kind, lineno, col_offset, end_lineno, end_col_offset, fields],
\* fields the sequence of [name, value] that ast.iter_fields yields.  A field
\* value is None, Text, PyInt, PyBool, [obj |-> its str()], [node |-> a node]
\* or [list |-> a sequence of such items].
IsNode(v) == DOMAIN v = {"node"}
IsList(v) == DOMAIN v = {"list"}
IsObj(v) == DOMAIN v = {"obj"}

RECURSIVE node_to_dict(_, _)
RECURSIVE ConvertItems(_, _, _)
RECURSIVE ConvertFields(_, _, _, _)

\* The list built for a list-valued field, items from the k-th on.
ConvertItems(items, k, src_lines) ==
    IF k > Len(items)
    THEN [list |-> <<>>]
    ELSE LET item == IF IsNode(items[k])
                     THEN node_to_dict(items[k].node, src_lines)
                     ELSE items[k]
             rest == ConvertItems(items, k + 1, src_lines)
         IN IF IsRaise(item) THEN item
            ELSE IF IsRaise(rest) THEN rest
            ELSE [list |-> <<item>> \o rest.list]

\* What result[field] is set to.
ConvertValue(value, src_lines) ==
    IF IsList(value) THEN ConvertItems(value.list, 1, src_lines)
    ELSE IF IsNode(value) THEN node_to_dict(value.node, src_lines)
    ELSE IF IsObj(value) THEN Text(value.obj)
    ELSE value

\* The loop over the fields from the k-th on, result being the dict so far.
ConvertFields(fields, k, res, src_lines) ==
    IF k > Len(fields)
    THEN [dict |-> res]
    ELSE LET v == ConvertValue(fields[k].value, src_lines)
         IN IF IsRaise(v)
            THEN v
            ELSE ConvertFields(fields, k + 1, (fields[k].name :> v) @@ res,
                               src_lines)

node_to_dict(n, src_lines) ==
    LET res == [type |-> Text(n.kind),
                lineno |-> getattr(n.lineno, None),
                col_offset |-> getattr(n.col_offset, None),
                end_lineno |-> getattr(n.end_lineno, None),
                end_col_offset |-> getattr(n.end_col_offset, None)]
        src == get_source_segment(src_lines, n)
    IN IF IsRaise(src)
       THEN src
       ELSE ConvertFields(n.fields, 1,
                IF src # None /\ src.str # <<>>
                THEN ("source" :> src) @@ res
                ELSE res,
                src_lines)


-----------------------------------------------------------------------------
(* extract_comments, one loop iteration per step *)

Alphabet == {"\"", "'", "#", "\\", "a", " ", "\n"}

RECURSIVE StrsUpTo(_)
StrsUpTo(n) ==
    IF n = 0
    THEN {<<>>}
    ELSE LET shorter == StrsUpTo(n - 1)
         IN shorter \cup {Append(s, c) : s \in {t \in shorter : Len(t) = n - 1},
                                         c \in Alphabet}

\* x = "a # b"   s = """a # b"""   y = 1  # note
Examples ==
    { <<"x", " ", "=", " ", "\"", "a", " ", "#", " ", "b", "\"">>,
      <<"s", " ", "=", " ", "\"", "\"", "\"", "a", " ", "#", " ", "b",
        "\"", "\"", "\"">>,
      <<"y", " ", "=", " ", "1", " ", " ", "#", " ", "n", "o", "t", "e">>,
      <<"'", "'", "'", "\"", "#", "'", "'", "'", " ", "#", "a">>,
      <<"\"", "\"", "\"", "a", "\n", "#", "\"", "\"", "\"">> }

Sources == StrsUpTo(MaxSrcLen) \cup Examples

lines == split(source)

IdleScan ==
    /\ i = 0 /\ col = 0 /\ in_string = FALSE /\ string_char = <<>>
    /\ comments = <<>>

IdleNode ==
    /\ source_lines = <<>> /\ node = None /\ segment = None
    /\ normalized = None

IdleMain ==
    /\ raised = <<>> /\ tree = None /\ result = None /\ stdout = <<>>
    /\ exit_code = -1

InitScan ==
    /\ pc = "for"
    /\ source \in Sources
    /\ IdleScan /\ IdleNode /\ IdleMain

\* for i, line in enumerate(lines, 1): the next line, its state reset
StartLine_CarryStringMode ==
    /\ pc = "for"
    /\ i < Len(lines)
    /\ i' = i + 1
    /\ col' = LineStart.col
    /\ UNCHANGED <<in_string, string_char>>
    /\ pc' = "while"
    /\ UNCHANGED <<source, comments>>
    /\ UNCHANGED nodeVars /\ UNCHANGED mainVars

StartLine ==
    /\ pc = "for"
    /\ i < Len(lines)
    /\ i' = i + 1
    /\ col' = LineStart.col
    /\ in_string' = LineStart.in_string
    /\ string_char' = LineStart.string_char
    /\ pc' = "while"
    /\ UNCHANGED <<source, comments>>
    /\ UNCHANGED nodeVars /\ UNCHANGED mainVars

\* one iteration of while col < len(line)
ScanChar ==
    /\ pc = "while"
    /\ col < Len(lines[i])
    /\ LET t == ScanStep(lines[i], [col |-> col, in_string |-> in_string,
                                    string_char |-> string_char])
       IN /\ col' = t.col
          /\ in_string' = t.in_string
          /\ string_char' = t.string_char
          /\ IF t.brk
             THEN /\ comments' = Append(comments,
                                        CommentRecord(i, lines[i], col))
                  /\ pc' = "for"
             ELSE /\ comments' = comments
                  /\ pc' = "while"
    /\ UNCHANGED <<source, i>>
    /\ UNCHANGED nodeVars /\ UNCHANGED mainVars

\* the while condition fails: the line is exhausted
EndLine ==
    /\ pc = "while"
    /\ col >= Len(lines[i])
    /\ pc' = "for"
    /\ UNCHANGED <<source, i, col, in_string, string_char, comments>>
    /\ UNCHANGED nodeVars /\ UNCHANGED mainVars

\* return comments
ReturnComments ==
    /\ pc = "for"
    /\ i >= Len(lines)
    /\ pc' = "returned"
    /\ UNCHANGED <<source, i, col, in_string, string_char, comments>>
    /\ UNCHANGED nodeVars /\ UNCHANGED mainVars

NextScan == StartLine \/ ScanChar \/ EndLine \/ ReturnComments

SpecScan == InitScan /\ [][NextScan]_vars

-----------------------------------------------------------------------------
(* get_source_segment and node_to_dict applied to a node *)

\* The character at 0-based column c of line l, named by its place, so that
\* a segment tells which characters of the source it holds.
CharAt(l, c) == ToString(l) \o ":" \o ToString(c)

\* The lines of a source whose l-th line has lens[l] characters.
LinesOfLengths(lens) ==
    [l \in DOMAIN lens |-> [c \in 1..lens[l] |-> CharAt(l, c - 1)]]

\* Every source of 1..MaxLines lines of at most MaxLineLen characters.
SourceLines ==
    {LinesOfLengths(lens) :
        lens \in UNION {[1..n -> 0..MaxLineLen] : n \in 1..MaxLines}}

\* Line numbers and columns a node may carry: absent, None, or an integer up
\* to one past the source (line 0 included: lines are numbered from 1).
LinenoValues == {Absent, None} \cup {PyInt(n) : n \in 0..(MaxLines + 1)}
ColValues == {Absent, None} \cup {PyInt(n) : n \in 0..(MaxLineLen + 1)}

MkNode(kind, a, fields) ==
    [kind |-> kind, lineno |-> a[1], col_offset |-> a[2],
     end_lineno |-> a[3], end_col_offset |-> a[4], fields |-> fields]

\* A node without fields, for every combination of the four attributes.
AttrNodes ==
    {MkNode("Pass", a, <<>>) :
        a \in LinenoValues \X ColValues \X LinenoValues \X ColValues}

NoPosition == <<Absent, Absent, Absent, Absent>>
FirstLine == <<PyInt(1), PyInt(0), PyInt(1), PyInt(MaxLineLen)>>

LoadNode == MkNode("Load", NoPosition, <<>>)
NameNode ==
    MkNode("Name", FirstLine,
           <<[name |-> "id", value |-> Text("ValueError")],
             [name |-> "ctx", value |-> [node |-> LoadNode]]>>)

\* Field names of ast.ExceptHandler, and values of every shape a field takes.
FieldNames == {"type", "name", "body"}
FieldValues ==
    { None, Text("e"), PyInt(1), PyBool(TRUE), [obj |-> "Ellipsis"],
      [node |-> NameNode], [node |-> LoadNode],
      [list |-> <<>>], [list |-> <<[node |-> NameNode]>>],
      [list |-> <<Text("x"), [node |-> LoadNode]>>] }

\* Field lists of at most MaxFields fields with distinct names.
FieldLists ==
    UNION {{f \in [1..n -> [name : FieldNames, value : FieldValues]] :
               \A j, k \in 1..n : j # k => f[j].name # f[k].name} :
           n \in 0..MaxFields}

FieldNodes ==
    {MkNode(kind, a, f) : kind \in {"ExceptHandler", "Module"},
                          a \in {NoPosition, FirstLine}, f \in FieldLists}

InitNode ==
    /\ pc = "call"
    /\ \/ source_lines \in SourceLines /\ node \in AttrNodes
       \/ source_lines = LinesOfLengths(<<MaxLineLen>>) /\ node \in FieldNodes
    /\ segment = None
    /\ normalized = None
    /\ source = <<>>
    /\ IdleScan /\ IdleMain

\* get_source_segment(source_lines, node)
Resolve ==
    /\ pc = "call"
    /\ segment' = get_source_segment(source_lines, node)
    /\ pc' = "resolved"
    /\ UNCHANGED <<source, source_lines, node, normalized>>
    /\ UNCHANGED scanVars /\ UNCHANGED mainVars

\* node_to_dict(node, source_lines)
Normalize ==
    /\ pc = "call"
    /\ normalized' = node_to_dict(node, source_lines)
    /\ pc' = "normalized"
    /\ UNCHANGED <<source, source_lines, node, segment>>
    /\ UNCHANGED scanVars /\ UNCHANGED mainVars

NextNode == Resolve \/ Normalize

SpecNode == InitNode /\ [][NextNode]_vars

-----------------------------------------------------------------------------
(* parse_python and main *)

\* The dicts parse_python returns.
SuccessResult(ast, cs) ==
    [success |-> TRUE, ast |-> ast, comments |-> cs, errors |-> <<>>]

\* except SyntaxError as e
SyntaxErrorResult_NoComments(e, cs) ==
    [success |-> FALSE, ast |-> None, comments |-> <<>>,
     errors |-> <<[message |-> IF e.msg \notin {None, Text("")}
                               THEN e.msg
                               ELSE Text(e.str),
                   lineno |-> e.lineno, col_offset |-> e.offset]>>]

SyntaxErrorResult(e, cs) ==
    [success |-> FALSE, ast |-> None, comments |-> cs,
     errors |-> <<[message |-> IF e.msg \notin {None, Text("")}
                               THEN e.msg
                               ELSE Text(e.str),
                   lineno |-> e.lineno, col_offset |-> e.offset]>>]

\* except Exception as e
ExceptionResult_NoError(e, cs) ==
    [success |-> FALSE, ast |-> None, comments |-> cs, errors |-> <<>>]

ExceptionResult(e, cs) ==
    [success |-> FALSE, ast |-> None, comments |-> cs,
     errors |-> <<[message |-> Text(e.str), lineno |-> None,
                   col_offset |-> None]>>]

\* main's except Exception as e
error_result_NoPrefix(e) ==
    [success |-> FALSE, ast |-> None, comments |-> <<>>,
     errors |-> <<[message |-> Text(e.str), lineno |-> None,
                   col_offset |-> None]>>]

error_result(e) ==
    [success |-> FALSE, ast |-> None, comments |-> <<>>,
     errors |-> <<[message |-> Text("Parser error: " \o e.str),
                   lineno |-> None, col_offset |-> None]>>]

\* An int of more digits than int-to-str conversion allows.
BigInt == [bigint |-> TRUE]

\* json.dumps(v) returns: it raises ValueError on an int it cannot convert.
RECURSIVE Dumpable(_)
Dumpable(v) ==
    IF v = BigInt THEN FALSE
    ELSE IF DOMAIN v = {"dict"}
    THEN \A k \in DOMAIN v.dict : Dumpable(v.dict[k])
    ELSE IF DOMAIN v = {"list"}
    THEN \A k \in DOMAIN v.list : Dumpable(v.list[k])
    ELSE TRUE

\* What the environment can do --------------------------------------------

\* Texts read from stdin.
StdinTexts == StrsUpTo(MaxStdinLen) \cup Examples

\* Trees ast.parse returns: every positioned node carries all four positions.
ConstantNode(v) ==
    MkNode("Constant", <<PyInt(1), PyInt(0), PyInt(1), PyInt(1)>>,
           <<[name |-> "value", value |-> v], [name |-> "kind", value |-> None]>>)
ExprNode(v) ==
    MkNode("Expr", <<PyInt(1), PyInt(0), PyInt(1), PyInt(1)>>,
           <<[name |-> "value", value |-> [node |-> v]]>>)
ModuleNode(body) ==
    MkNode("Module", NoPosition,
           <<[name |-> "body", value |-> [list |-> body]],
             [name |-> "type_ignores", value |-> [list |-> <<>>]]>>)
ParserTrees ==
    { ModuleNode(<<>>),
      ModuleNode(<<[node |-> ExprNode(ConstantNode(PyInt(1)))]>>),
      ModuleNode(<<[node |-> ExprNode(ConstantNode(BigInt))]>>) }

\* The structured syntax failures of ast.parse: msg, lineno and offset may be
\* missing, str(e) never is.
SyntaxErrors ==
    [type : {"SyntaxError"},
     msg : {Text("invalid syntax"), None},
     lineno : {PyInt(1), None},
     offset : {PyInt(7), None},
     str : {"invalid syntax (<unknown>, line 1)"}]

Exc(type, str) == [type |-> type, str |-> str]

\* Other exceptions, by the statement that raises them.
ReadErrors == {Exc("UnicodeDecodeError", "invalid start byte")}
ScanErrors == {Exc("MemoryError", "")}
ParseErrors ==
    { Exc("ValueError", "source code string cannot contain null bytes"),
      Exc("RecursionError", "maximum recursion depth exceeded") }
NormalizeErrors ==
    {Exc("RecursionError", "maximum recursion depth exceeded")}
DumpsError == Exc("ValueError", "Exceeds the limit for integer string conversion")

Raised(step, e) == Append(raised, [step |-> step, exc |-> e])

Init ==
    /\ pc = "main"
    /\ source = <<>>
    /\ comments = <<>>
    /\ i = 0 /\ col = 0 /\ in_string = FALSE /\ string_char = <<>>
    /\ IdleNode /\ IdleMain

\* source = sys.stdin.read()
Read ==
    /\ pc = "main"
    /\ \/ \E text \in StdinTexts :
              /\ source' = text
              /\ pc' = "extract_comments"
              /\ UNCHANGED raised
       \/ \E e \in ReadErrors :
              /\ raised' = Raised("read", e)
              /\ pc' = "except"
              /\ UNCHANGED source
    /\ UNCHANGED <<tree, result, stdout, exit_code>>
    /\ UNCHANGED scanVars /\ UNCHANGED nodeVars

\* parse_python: source_lines = source.split('\n');
\*               comments = extract_comments(source)
ExtractComments ==
    /\ pc = "extract_comments"
    /\ \/ /\ comments' = extract_comments(source)
          /\ pc' = "ast.parse"
          /\ UNCHANGED raised
       \/ \E e \in ScanErrors :
              /\ raised' = Raised("extract_comments", e)
              /\ pc' = "except"
              /\ UNCHANGED comments
    /\ UNCHANGED <<source, i, col, in_string, string_char>>
    /\ UNCHANGED <<tree, result, stdout, exit_code>>
    /\ UNCHANGED nodeVars

\* parse_python: tree = ast.parse(source), with both except clauses
AstParse ==
    /\ pc = "ast.parse"
    /\ \/ \E t \in ParserTrees :
              /\ tree' = t
              /\ pc' = "node_to_dict"
              /\ UNCHANGED <<raised, result>>
       \/ \E e \in SyntaxErrors :
              /\ raised' = Raised("ast.parse", e)
              /\ result' = SyntaxErrorResult(e, comments)
              /\ pc' = "dumps"
              /\ UNCHANGED tree
       \/ \E e \in ParseErrors :
              /\ raised' = Raised("ast.parse", e)
              /\ result' = ExceptionResult(e, comments)
              /\ pc' = "dumps"
              /\ UNCHANGED tree
    /\ UNCHANGED <<source, stdout, exit_code>>
    /\ UNCHANGED scanVars /\ UNCHANGED nodeVars

\* parse_python: return {... 'ast': node_to_dict(tree, source_lines) ...},
\* with the except Exception clause
NodeToDict ==
    /\ pc = "node_to_dict"
    /\ LET ast == node_to_dict(tree, split(source))
       IN \/ /\ ~IsRaise(ast)
             /\ result' = SuccessResult(ast, comments)
             /\ UNCHANGED raised
          \/ /\ IsRaise(ast)
             /\ raised' = Raised("node_to_dict", Exc(ast.raise, ""))
             /\ result' = ExceptionResult(Exc(ast.raise, ""), comments)
          \/ \E e \in NormalizeErrors :
                 /\ raised' = Raised("node_to_dict", e)
                 /\ result' = ExceptionResult(e, comments)
    /\ pc' = "dumps"
    /\ UNCHANGED <<source, tree, stdout, exit_code>>
    /\ UNCHANGED scanVars /\ UNCHANGED nodeVars

\* main: print(json.dumps(result)), then the return from main
DumpsAndPrint ==
    /\ pc = "dumps"
    /\ IF Dumpable(result.ast)
       THEN /\ stdout' = Append(stdout, result)
            /\ exit_code' = 0
            /\ pc' = "exit"
            /\ UNCHANGED raised
       ELSE /\ raised' = Raised("dumps", DumpsError)
            /\ pc' = "except"
            /\ UNCHANGED <<stdout, exit_code>>
    /\ UNCHANGED <<source, tree, result>>
    /\ UNCHANGED scanVars /\ UNCHANGED nodeVars

\* main: except Exception as e: print(json.dumps(error_result)); sys.exit(1)
MainExcept_ExitZero ==
    /\ pc = "except"
    /\ stdout' = Append(stdout, error_result(raised[Len(raised)].exc))
    /\ exit_code' = 0
    /\ pc' = "exit"
    /\ UNCHANGED <<source, raised, tree, result>>
    /\ UNCHANGED scanVars /\ UNCHANGED nodeVars

MainExcept ==
    /\ pc = "except"
    /\ stdout' = Append(stdout, error_result(raised[Len(raised)].exc))
    /\ exit_code' = 1
    /\ pc' = "exit"
    /\ UNCHANGED <<source, raised, tree, result>>
    /\ UNCHANGED scanVars /\ UNCHANGED nodeVars

Next ==
    \/ Read
    \/ ExtractComments
    \/ AstParse
    \/ NodeToDict
    \/ DumpsAndPrint
    \/ MainExcept

Spec == Init /\ [][Next]_vars

-----------------------------------------------------------------------------
(* Claims about parse_python and main, under Spec *)

WellFormedResult(d) ==
    /\ "comments" \in DOMAIN d
    /\ d.success <=> d.ast # None
    /\ d.success <=> d.errors = <<>>
    /\ ~d.success => Len(d.errors) = 1

\* C1: in the dict parse_python returns and in every document main prints,
\* success holds iff ast is non-null iff errors is empty, a failure holds
\* exactly one ErrorRecord, and comments is present.
C1_ResultShape ==
    /\ result # None => WellFormedResult(result)
    /\ \A k \in DOMAIN stdout : WellFormedResult(stdout[k])

\* parse_python returned a success the serializer then refused: the returned
\* dict and the printed error document are both in view.
C1_Witness ==
    /\ pc = "exit"
    /\ raised # <<>>
    /\ raised[1].step = "dumps"
    /\ result.success
    /\ ~stdout[1].success

\* The k-th exception is the parser's structured syntax failure.
ParserSyntaxFailure(k) ==
    raised[k].step = "ast.parse" /\ raised[k].exc.type = "SyntaxError"

\* C2: after a structured syntax failure of the parser the result is
\* success=false, ast=null, one ErrorRecord with the failure's message (its
\* generic description when it has none), line and column, and the comments
\* the Comment Scanner yields for the text; that result is what is printed.
C2_SyntaxFailureResult ==
    \A k \in DOMAIN raised :
        ParserSyntaxFailure(k) =>
            /\ result =
                   [success |-> FALSE, ast |-> None,
                    comments |-> extract_comments(source),
                    errors |-> <<[message |-> IF raised[k].exc.msg = None
                                              THEN Text(raised[k].exc.str)
                                              ELSE raised[k].exc.msg,
                                  lineno |-> raised[k].exc.lineno,
                                  col_offset |-> raised[k].exc.offset]>>]
            /\ pc = "exit" => stdout = <<result>>

\* A syntax failure without a structured message, on a text with a comment.
C2_Witness ==
    /\ pc = "exit"
    /\ raised # <<>>
    /\ ParserSyntaxFailure(1)
    /\ raised[1].exc.msg = None
    /\ raised[1].exc.lineno # None
    /\ stdout[1].comments # <<>>

\* The document of the unexpected-failure path for exception e.
GenericErrorDocument(e) ==
    [success |-> FALSE, ast |-> None, comments |-> <<>>,
     errors |-> <<[message |-> Text("Parser error: " \o e.str),
                   lineno |-> None, col_offset |-> None]>>]

\* C3 as stated: any failure other than the parser's structured syntax
\* failure, wherever raised, ends in the generic document: no comments, the
\* prefixed message, null line and column.
C3_AnyOtherFailureIsGeneric ==
    (pc = "exit" /\ raised # <<>> /\ ~ParserSyntaxFailure(1)) =>
        stdout = <<GenericErrorDocument(raised[1].exc)>>

\* The k-th exception was raised outside parse_python's try statement.
OutsideTry(k) == raised[k].step \in {"read", "extract_comments", "dumps"}

\* C3 as amended: such a failure raised while reading, scanning comments or
\* serializing ends in the generic document; one raised by the parser call or
\* by normalization ends in success=false, ast=null, the scanned comments and
\* one ErrorRecord with the exception's own text, unprefixed, and null line
\* and column.
C3_FailureDocumentByPlace ==
    (pc = "exit" /\ raised # <<>> /\ ~ParserSyntaxFailure(1)) =>
        /\ OutsideTry(1) => stdout = <<GenericErrorDocument(raised[1].exc)>>
        /\ ~OutsideTry(1) =>
               stdout = <<[success |-> FALSE, ast |-> None,
                           comments |-> extract_comments(source),
                           errors |-> <<[message |-> Text(raised[1].exc.str),
                                         lineno |-> None,
                                         col_offset |-> None]>>]>>

\* The parser raised ValueError on a text with a comment.
C3_Witness ==
    /\ pc = "exit"
    /\ raised # <<>>
    /\ raised[1].step = "ast.parse"
    /\ raised[1].exc.type = "ValueError"
    /\ stdout[1].comments # <<>>

Rank(p) ==
    CASE p = "main" -> 0
      [] p = "extract_comments" -> 1
      [] p = "ast.parse" -> 2
      [] p = "node_to_dict" -> 3
      [] p = "dumps" -> 4
      [] p = "except" -> 5
      [] p = "exit" -> 6

-----------------------------------------------------------------------------
(* Claims about extract_comments, under SpecScan *)

\* The string literals of the source language on one line: a quote opens a
\* literal (a triple delimiter when three follow each other), a backslash
\* inside a literal escapes the next character, the first unescaped matching
\* delimiter closes it, and a marker outside every literal starts the comment
\* that runs to the end of the line.
RECURSIVE FindClose(_, _, _)
FindClose(line, k, delim) ==
    IF k >= Len(line) THEN -1
    ELSE IF line[k + 1] = "\\" THEN FindClose(line, k + 2, delim)
    ELSE IF Slice(line, k, k + Len(delim)) = delim THEN k
    ELSE FindClose(line, k + 1, delim)

\* The 0-based columns inside a literal opened at or after column k and
\* closed on the line.
RECURSIVE LiteralCols(_, _)
LiteralCols(line, k) ==
    IF k >= Len(line) \/ line[k + 1] = "#" THEN {}
    ELSE IF line[k + 1] \notin Quotes THEN LiteralCols(line, k + 1)
    ELSE LET delim == IF Slice(line, k, k + 3) \in TripleQuotes
                      THEN Slice(line, k, k + 3)
                      ELSE <<line[k + 1]>>
             close == FindClose(line, k + Len(delim), delim)
         IN IF close < 0
            THEN {}
            ELSE ((k + Len(delim))..(close - 1))
                     \cup LiteralCols(line, close + Len(delim))

\* C5: no reported comment marker lies inside a string literal that is
\* opened and closed on the marker's line.
C5_NoMarkerInsideLiteral ==
    \A k \in DOMAIN comments :
        comments[k].column \notin LiteralCols(lines[comments[k].line], 0)

\* str.strip() stated on positions: what lies between the first and the last
\* non-whitespace character.
Trimmed(s) ==
    LET keep == {k \in 1..Len(s) : s[k] \notin Whitespace}
    IN IF keep = {}
       THEN <<>>
       ELSE SubSeq(s, CHOOSE k \in keep : \A j \in keep : k <= j,
                      CHOOSE k \in keep : \A j \in keep : k >= j)

\* The scan stands on a marker outside string mode.
AtLiveMarker ==
    /\ pc = "while"
    /\ col < Len(lines[i])
    /\ lines[i][col + 1] = "#"
    /\ ~in_string

C9_Step ==
    /\ AtLiveMarker =>
           /\ comments' = Append(comments,
                  [line |-> i, column |-> col,
                   text |-> Trimmed(SubSeq(lines[i], col + 2, Len(lines[i]))),
                   inline |-> \E k \in 1..col : lines[i][k] \notin Whitespace])
           /\ pc' = "for"
           /\ i' = i
    /\ comments' # comments => AtLiveMarker

\* C9: a record is appended exactly when the scan reaches a marker outside
\* string mode; the scan of that line stops there; the record holds the
\* 1-based line, the 0-based column of the marker, the trimmed rest of the
\* line and inline = some non-whitespace character precedes the marker; the
\* records are in strictly increasing line order (so at most one per line).
C9_OneRecordAtFirstLiveMarker ==
    /\ [](\A j, k \in DOMAIN comments :
              j < k => comments[j].line < comments[k].line)
    /\ [](\A k \in DOMAIN comments : comments[k].line \in 1..i)
    /\ [][C9_Step]_vars

\* An inline comment was recorded, a second marker follows it on its line,
\* and a later line has its own record.
C9_Witness ==
    /\ pc = "returned"
    /\ Len(comments) = 2
    /\ comments[1].inline
    /\ \E k \in (comments[1].column + 2)..Len(lines[comments[1].line]) :
           lines[comments[1].line][k] = "#"

\* The records of line n alone, as the single-line source lines[n] yields
\* them, renumbered to n.
RecordsAlone(n) ==
    LET alone == extract_comments(lines[n])
    IN [k \in DOMAIN alone |-> [alone[k] EXCEPT !.line = n]]

RecordsOf(n) ==
    LET OnLine(r) == r.line = n
    IN SelectSeq(comments, OnLine)

\* C10: the string-mode state is reset whenever a line is started, and the
\* records of each line are those the line yields as a text of its own.
C10_StateResetPerLine ==
    /\ [][i' # i => col' = 0 /\ ~in_string' /\ string_char' = <<>>]_vars
    /\ [](pc = "returned" =>
              \A n \in 1..Len(lines) : RecordsOf(n) = RecordsAlone(n))

\* A line left in string mode is followed by a line with a record.
C10_Witness ==
    /\ pc = "returned"
    /\ \E n \in 1..(Len(lines) - 1) :
           /\ ScanFrom(lines[n], LineStart).in_string
           /\ \E k \in DOMAIN comments : comments[k].line = n + 1

-----------------------------------------------------------------------------
(* Claims about node_to_dict and get_source_segment, under SpecNode *)

PositionKeys == {"lineno", "col_offset", "end_lineno", "end_col_offset"}

\* C6: the NormalizedNode carries the node's kind label, its four position
\* values (null where the node lacks them) and every field under the field's
\* own name; a node without fields yields nothing but the label, the
\* positions and source.
C6_KindPositionsAndFields ==
    (pc = "normalized" /\ ~IsRaise(normalized)) =>
        LET d == normalized.dict
        IN /\ d["type"] = Text(node.kind)
           /\ d["lineno"] = (IF node.lineno = Absent THEN None ELSE node.lineno)
           /\ d["col_offset"] =
                  (IF node.col_offset = Absent THEN None ELSE node.col_offset)
           /\ d["end_lineno"] =
                  (IF node.end_lineno = Absent THEN None ELSE node.end_lineno)
           /\ d["end_col_offset"] =
                  (IF node.end_col_offset = Absent THEN None
                   ELSE node.end_col_offset)
           /\ \A k \in DOMAIN node.fields :
                  /\ node.fields[k].name \in DOMAIN d
                  /\ d[node.fields[k].name] =
                         ConvertValue(node.fields[k].value, source_lines)
           /\ node.fields = <<>> =>
                  DOMAIN d \subseteq {"type", "source"} \cup PositionKeys

\* The start line is absent or is not the number of a line of the source.
NoStartLine ==
    \/ node.lineno \in {Absent, None}
    \/ node.lineno.int \notin 1..Len(source_lines)

IsSubstring(t, s) ==
    \E a \in 1..(Len(s) + 1) : \E b \in 0..Len(s) : t = SubSeq(s, a, b)

\* C7: get_source_segment never raises; it returns nothing or a substring of
\* the source, and nothing whenever the start line is absent or indexes no
\* line.
C7_NeverRaisesReturnsAbsence ==
    pc = "resolved" =>
        /\ ~IsRaise(segment)
        /\ segment = None \/ IsSubstring(segment.str, join(source_lines))
        /\ NoStartLine => segment = None

StartLineno == node.lineno.int
EndLineno ==
    IF node.end_lineno = Absent THEN node.lineno.int ELSE node.end_lineno.int

\* The node's start line does not follow its end line, both in the source.
SpanInSource ==
    /\ node.lineno \notin {Absent, None}
    /\ node.end_lineno # None
    /\ 1 <= StartLineno
    /\ StartLineno <= EndLineno
    /\ EndLineno <= Len(source_lines)

\* The characters of line l the span covers: from the start column on the
\* first line (column 0 when the node has none), up to the end column on the
\* last line (the whole line when the node has none).
Covered(l) ==
    LET lo == IF l = StartLineno /\ node.col_offset \notin {Absent, None}
              THEN node.col_offset.int
              ELSE 0
        hi == IF l = EndLineno /\ node.end_col_offset \notin {Absent, None}
              THEN Min(node.end_col_offset.int, Len(source_lines[l]))
              ELSE Len(source_lines[l])
    IN [p \in 1..(hi - lo) |-> source_lines[l][lo + p]]

RECURSIVE CoveredFrom(_)
CoveredFrom(l) ==
    IF l >= EndLineno
    THEN Covered(l)
    ELSE Covered(l) \o <<"\n">> \o CoveredFrom(l + 1)

\* C8: for a span inside the source the segment is the first line from the
\* start column, every middle line in full and the last line up to the end
\* column, joined by newlines; on a single line, the characters from the
\* start column up to the end column.
C8_SegmentIsCoveredText ==
    (pc = "resolved" /\ SpanInSource) =>
        segment = PyStr(CoveredFrom(StartLineno))

\* A span over three full lines, cut at both ends.
C8_Witness ==
    /\ pc = "resolved"
    /\ SpanInSource
    /\ EndLineno = StartLineno + 2
    /\ \A l \in StartLineno..EndLineno : Len(source_lines[l]) = MaxLineLen
    /\ node.col_offset = PyInt(1)
    /\ node.end_col_offset = PyInt(1)
    /\ Len(segment.str) = MaxLineLen + 2 + MaxLineLen

====
